---- MODULE Spec2Model ----
(***************************************************************************)
(* Solar Sync: the hardware layer (app/hardware) as a state machine.       *)
(*                                                                         *)
(* The Device Manager runs on one asyncio event loop: a coroutine runs     *)
(* without interruption up to an await that really suspends.  The awaits   *)
(* that suspend are asyncio.sleep in the two loops and the I/O of a vendor *)
(* Driver (connect, read_data, test_connection, write_control).  The       *)
(* Simulation Driver, the adapter enumeration and the bus scan             *)
(* (ModbusRTUScanner, whose coroutines only make blocking pymodbus calls)  *)
(* contain no suspending await, so each of them is part of the step of the *)
(* coroutine that calls it.                                                *)
(*                                                                         *)
(* Spec        the Device Manager with its loops and its router callers    *)
(* SpecScans   the Device Manager when only scans are called               *)
(* SpecNoHw    the started Device Manager with no hardware answering, its  *)
(*             tasks scheduled fairly                                      *)
(* SpecDriver  one Driver under arbitrary interleavings of its public API  *)
(* SpecFair    Spec with a scan's awaited connect() answering              *)
(* SpecUpdates the WebSocket manager's update loop (app/services)          *)
(***************************************************************************)
EXTENDS Integers, Sequences, FiniteSets, TLC

\* ---- bounds of the model
MaxDev == 1
MaxLoops == 1
MaxTasks == 2
MaxClock == 2
MaxCallers == 2
MaxStamp == 3

\* ---- program constants
max_retries == 3

DevKeys == 1..MaxDev
\* the fixed key "simulator"; a discovered device's key port_slave is its number
SimKey == 0
Keys == {SimKey} \cup DevKeys
\* what a coroutine holds of a Driver: the key under which the device table
\* stores that Driver, Gone once the table no longer contains the object
\* (nothing but the call in flight can observe it any more), NoRef for none
Gone == -1
NoRef == -2
Times == 1..MaxClock
\* None for a snapshot or a time: no number a timestamp can be
NoData == -1
Null == "null"
\* the collection-loop tasks that can be alive at once
Loops == 1..MaxTasks
Callers == {"start", "loop", "manual", "disable"}
DCallers == 1..MaxCallers
TheDrv == 1
\* the simulated plant's clock counts whole hours from the midnight of the
\* day the Simulation Driver was constructed, up to MaxHour
MaxHour == 31
\* the read_data() calls followed on one Simulation Driver
MaxReads == 2
Hours == 0..MaxHour
\* a scan of the bus: up to MaxBaud baud rates, up to MaxAddr addresses
MaxBaud == 2
\* an identification tag is made of up to MaxParts fragments
\* update-loop tasks ever created, concurrent callers of stop_update_loop
MaxUpd == 3
MaxStoppers == 2

MaxParts == 2
MaxAddr == 3

VARIABLES drv, devices, simulation_mode, scanning, running, last_scan,
          scan_pc, scan_found, scan_avail, scan_d, scan_n, scan_sleeping,
          coll, req, ev, left, now, hw, dcalls, simu, bus, pick, ws

vars == <<drv, devices, simulation_mode, scanning, running, last_scan,
          scan_pc, scan_found, scan_avail, scan_d, scan_n, scan_sleeping,
          coll, req, ev, left, now, hw, dcalls, simu, bus, pick, ws>>

Mgr == <<devices, simulation_mode, scanning, running, last_scan, scan_pc, scan_found,
         scan_avail, scan_d, scan_n, scan_sleeping, coll, req>>

\* ======================================================================
\* Drivers (drivers/base_driver.py, simulation/simulator.py)
\* ======================================================================

DeviceStatus == {"disconnected", "connecting", "connected", "error", "simulation"}

\* no Driver under this key
Blank == [kind |-> "none", status |-> "disconnected", last_error |-> Null,
          connection_attempts |-> 0, last_data |-> NoData]

\* BaseDriver.__init__
BaseDriver(kind) == [kind |-> kind, status |-> "disconnected", last_error |-> Null,
                     connection_attempts |-> 0, last_data |-> NoData]

\* SimulationDriver.__init__: the base fields, then status = SIMULATION
SimulationDriver == [BaseDriver("sim") EXCEPT !.status = "simulation"]

\* a vendor Driver (Growatt, Deye, SMA, generic): only BaseDriver.__init__ is known
VendorDriver == BaseDriver("real")

\* SimulationDriver.connect: returns True
SimConnect(r) == [r EXCEPT !.status = "connected"]

\* disconnect(): any state -> Disconnected
Disconnect(r) == [r EXCEPT !.status = "disconnected"]

SimRead_ResetsStatus(r, t) == [r EXCEPT !.last_data = t, !.status = "simulation"]

\* SimulationDriver.read_data at time t: stores and returns the snapshot
SimRead(r, t) == [r EXCEPT !.last_data = t]

\* SimulationDriver.write_control: logs and returns True
SimWrite(r) == TRUE

\* vendor connect(): Disconnected/Error -> Connecting ...
RealConnectBegin(r) == [r EXCEPT !.status = "connecting"]

\* hw: the hardware answers (an environment fact, never changed); a connect
\* to hardware that does not answer fails or raises
ConnectOutcomes == IF hw THEN {"ok", "fail", "raise"} ELSE {"fail", "raise"}

\* ... -> Connected on success, -> Error on failure; a raise leaves the
\* status the attempt had reached
RealConnectEnd(r, out) ==
  CASE out = "ok" -> [r EXCEPT !.status = "connected"]
    [] out = "fail" -> [r EXCEPT !.status = "error"]
    [] OTHER -> r

\* vendor write(control): rejected (false) when not Connected
RealWriteAllowed(r) == r.status = "connected"

AutoReconnectNoop_ConnectedOnly(r) == r.status = "connected"

\* auto_reconnect, line 149
AutoReconnectNoop(r) == r.status \in {"connected", "connecting"}

AutoReconnectTripped_OffByOne(r) == r.connection_attempts > max_retries

\* auto_reconnect, line 152
AutoReconnectTripped(r) == r.connection_attempts >= max_retries

\* auto_reconnect, lines 157-158
AutoReconnectBegin(r) ==
  [r EXCEPT !.status = "connecting", !.connection_attempts = @ + 1]

\* auto_reconnect, lines 160-175, r as connect() left it
AutoReconnectEnd(r, out) ==
  CASE out = "ok" -> [r EXCEPT !.status = "connected", !.connection_attempts = 0]
    [] out = "fail" -> [r EXCEPT !.status = "error"]
    [] OTHER -> [r EXCEPT !.status = "error", !.last_error = "err"]

AutoReconnectResult(out) == IF out = "ok" THEN "true" ELSE "false"

ProbeOutcomes == {"true", "false", "raise"}

\* health_check, lines 117-145, after test_connection answered
HealthCheckEnd(r, out) ==
  CASE out = "true" -> [r EXCEPT !.status = "connected", !.last_error = Null]
    [] out = "false" -> [r EXCEPT !.status = "error"]
    [] OTHER -> [r EXCEPT !.status = "error", !.last_error = "err"]

HealthCheckResult(out) ==
  CASE out = "true" -> "healthy"
    [] out = "false" -> "unhealthy"
    [] OTHER -> "error"


\* ======================================================================
\* Device Manager (device_manager.py): the state as one record, each
\* coroutine as a function from the state it starts in to the state at its
\* next suspension
\* ======================================================================

\* ev is what the step just taken returned to its caller, NoEvent for nothing
\* (op, val: the operation and its result; sim, n: simulation_mode and the
\* number of devices in a scan result; from: what the Driver answered)
NoEvent == [op |-> "none", val |-> "none", sim |-> FALSE, n |-> 0, from |-> "none"]

Cur == [drv |-> drv, devices |-> devices, simulation_mode |-> simulation_mode,
        scanning |-> scanning, running |-> running, last_scan |-> last_scan,
        scan_pc |-> scan_pc, scan_found |-> scan_found, scan_avail |-> scan_avail,
        scan_d |-> scan_d, scan_n |-> scan_n, scan_sleeping |-> scan_sleeping,
        coll |-> coll, req |-> req, ev |-> NoEvent, left |-> {}, now |-> now]

Set(s) ==
  \E g \in {s} :
    /\ drv' = g.drv
    /\ devices' = g.devices
    /\ simulation_mode' = g.simulation_mode
    /\ scanning' = g.scanning
    /\ running' = g.running
    /\ last_scan' = g.last_scan
    /\ scan_pc' = g.scan_pc
    /\ scan_found' = g.scan_found
    /\ scan_avail' = g.scan_avail
    /\ scan_d' = g.scan_d
    /\ scan_n' = g.scan_n
    /\ scan_sleeping' = g.scan_sleeping
    /\ coll' = g.coll
    /\ req' = g.req
    /\ ev' = g.ev
    /\ left' = g.left
    /\ now' = g.now

\* ---- the device table: a dict (insertion-ordered keys, devices) of Driver
\* objects (drv[k], the object stored under key k)
Range(f) == {f[i] : i \in DOMAIN f}

Forget(ref, K) == IF ref \in K THEN Gone ELSE ref

\* the objects under the keys K leave the table: the calls in flight on
\* them keep objects of their own
Unlink(s, K) ==
  [s EXCEPT !.scan_d = [c \in Callers |-> Forget(s.scan_d[c], K)],
            !.coll = [i \in Loops |-> [s.coll[i] EXCEPT !.d = Forget(@, K)]],
            !.req = [d |-> Forget(s.req.d, K), w |-> Forget(s.req.w, K)]]

\* left: the statuses of the Driver objects outside the table after the
\* step just taken: of the objects it took out of the table and of the
\* objects out of the table whose status it set
Leave(s, K) ==
  [s EXCEPT !.left = @ \cup {s.drv[k].status : k \in K \cap Range(s.devices)}]

\* self.devices[k] = r, a new object
Put(s, k, r) ==
  [Unlink(Leave(s, {k}), {k})
     EXCEPT !.drv[k] = r,
            !.devices = IF k \in Range(s.devices) THEN @ ELSE Append(@, k)]

\* del self.devices[k] for the keys K; every key for self.devices.clear()
Remove(s, K) ==
  [Unlink(Leave(s, K), K)
     EXCEPT !.drv = [k \in Keys |-> IF k \in K THEN Blank ELSE s.drv[k]],
            !.devices = SelectSeq(s.devices, LAMBDA k : k \notin K)]

\* await d.disconnect() for every Driver d under the keys K
DisconnectEach(s, K) ==
  [s EXCEPT !.drv = [k \in Keys |-> IF k \in K /\ k \in Range(s.devices)
                                    THEN Disconnect(s.drv[k]) ELSE s.drv[k]]]

\* a vendor Driver out of the table: only the status a call sets is followed
Lost == [VendorDriver EXCEPT !.status = "unknown"]

\* the Driver the call in flight on ref holds
Held(s, ref) == IF ref \in Keys THEN s.drv[ref] ELSE Lost

\* the call in flight on ref leaves its Driver as r
Update(s, ref, r) ==
  IF ref \in Keys
  THEN [s EXCEPT !.drv[ref] = r]
  ELSE [s EXCEPT !.left = @ \cup ({r.status} \ {"unknown"})]

Event(op, val, sim, n) == [op |-> op, val |-> val, sim |-> sim, n |-> n, from |-> "none"]

NoCall == [pc |-> "none", pos |-> 0, size |-> 0, d |-> NoRef]

NoReq == [d |-> NoRef, w |-> NoRef]

\* ---- _enable_simulation_mode, lines 141-162
enable_simulation_mode(s) ==
  Put([s EXCEPT !.simulation_mode = TRUE], SimKey, SimConnect(SimulationDriver))

\* ---- the two loops' re-check of self.running (lines 293 and 306)
scan_loop_top(s) ==
  IF s.running THEN [s EXCEPT !.scan_sleeping = @ + 1] ELSE s

collection_loop_top(s, i) ==
  IF s.running
  THEN [s EXCEPT !.coll[i] = [NoCall EXCEPT !.pc = "sleep"]]
  ELSE [s EXCEPT !.coll[i] = NoCall]

FreeLoop(s) == CHOOSE i \in Loops : s.coll[i].pc = "none" /\
                 \A j \in Loops : s.coll[j].pc = "none" => i <= j

\* start(), lines 64-65: the two tasks are created; each starts with its
\* check of self.running and runs to its sleep
create_tasks(s) == collection_loop_top(scan_loop_top(s), FreeLoop(s))

\* what the caller of scan_devices() does with the result
after_scan(s, c) ==
  CASE c = "start" -> create_tasks(s)
    [] c = "loop" -> scan_loop_top(s)
    [] OTHER -> s

scan_return_NoFinally(s, c, status, n) ==
  after_scan([s EXCEPT !.scanning = (status /= "completed"),
                       !.scan_pc[c] = "idle",
                       !.scan_found[c] = <<>>,
                       !.scan_avail[c] = {},
                       !.scan_d[c] = NoRef,
                       !.scan_n[c] = 0,
                       !.ev = Event("scan", status, s.simulation_mode, n)], c)

\* scan_devices, lines 124-128 / 133-139: the result record, then finally
scan_return(s, c, status, n) ==
  after_scan([s EXCEPT !.scanning = FALSE,
                       !.scan_pc[c] = "idle",
                       !.scan_found[c] = <<>>,
                       !.scan_avail[c] = {},
                       !.scan_d[c] = NoRef,
                       !.scan_n[c] = 0,
                       !.ev = Event("scan", status, s.simulation_mode, n)], c)

\* scan_devices, line 123
scan_completed(s, c) ==
  scan_return([s EXCEPT !.last_scan = s.now], c, "completed", s.scan_n[c])

\* _connect_to_devices, lines 166-181: up to the next driver.connect()
RECURSIVE connect_to_devices(_, _)
connect_to_devices(s, c) ==
  IF s.scan_found[c] = <<>>
  THEN scan_completed(s, c)
  ELSE LET k == Head(s.scan_found[c])
           t == [s EXCEPT !.scan_found[c] = Tail(@)] IN
       IF k \notin s.scan_avail[c]
       THEN connect_to_devices(t, c)
       ELSE [Put(t, k, RealConnectBegin(VendorDriver))
               EXCEPT !.scan_pc[c] = "connect", !.scan_d[c] = k]

scan_busy_Never(s) == FALSE

\* scan_devices, line 83
scan_busy(s) == s.scanning

\* the outcome of adapter enumeration and bus scan: the devices found, in
\* bus order, and the ones _create_driver has a Driver for
RECURSIVE Ascending(_)
Ascending(S) ==
  IF S = {} THEN <<>>
  ELSE LET m == CHOOSE x \in S : \A y \in S : x <= y IN <<m>> \o Ascending(S \ {m})

Discoveries ==
  {[raise |-> TRUE, found |-> <<>>, avail |-> {}]}
    \cup {[raise |-> FALSE, found |-> Ascending(p[1]), avail |-> p[2]] :
            p \in {q \in (SUBSET DevKeys) \X (SUBSET DevKeys) : q[2] \subseteq q[1]}}

\* scan_devices, lines 83-139, called by c
scan_devices(s, c, disc) ==
  IF scan_busy(s)
  THEN after_scan([s EXCEPT !.ev = Event("scan", "scanning", s.simulation_mode, 0)], c)
  ELSE LET b == [s EXCEPT !.scanning = TRUE] IN
       IF disc.raise
       THEN scan_return(enable_simulation_mode(b), c, "error", 0)
       ELSE IF disc.found = <<>>
       THEN scan_completed(enable_simulation_mode(b), c)
       ELSE connect_to_devices([b EXCEPT !.scan_found[c] = disc.found,
                                         !.scan_avail[c] = disc.avail,
                                         !.scan_n[c] = Len(disc.found)], c)

stop_NoDisconnect(s) ==
  [Remove([s EXCEPT !.running = FALSE], Keys)
     EXCEPT !.ev = Event("stop", "done", s.simulation_mode, 0)]

\* stop(), lines 72-78
stop(s) ==
  [Remove(DisconnectEach([s EXCEPT !.running = FALSE], Keys), Keys)
     EXCEPT !.ev = Event("stop", "done", s.simulation_mode, 0)]

\* ---- _data_collection_loop, lines 311-322: the for loop from entry pos on,
\* up to the next suspending driver call.  The dict iterator raises
\* RuntimeError when the dict's size differs from the size at its creation;
\* line 324 catches and logs it (the event "collect" / "error", with the
\* number of entries the iteration had still to visit).
RECURSIVE collection_iterate(_, _, _, _)
collection_iterate(s, i, pos, size) ==
  IF Len(s.devices) /= size
  THEN collection_loop_top(
         [s EXCEPT !.ev = Event("collect", "error", s.simulation_mode, size - pos + 1)], i)
  ELSE IF pos > Len(s.devices)
  THEN collection_loop_top(s, i)
  ELSE LET k == s.devices[pos]
           r == s.drv[k]
           at == [pc |-> "read", pos |-> pos + 1, size |-> size, d |-> k] IN
       IF r.status = "connected"
       THEN IF r.kind = "sim"
            THEN collection_iterate([s EXCEPT !.drv[k] = SimRead(r, s.now)], i, pos + 1, size)
            ELSE [s EXCEPT !.coll[i] = at]
       ELSE IF r.status = "error" /\ ~AutoReconnectNoop(r) /\ ~AutoReconnectTripped(r)
       THEN IF r.kind = "sim"
            THEN collection_iterate(
                   [s EXCEPT !.drv[k] = AutoReconnectEnd(SimConnect(AutoReconnectBegin(r)), "ok")],
                   i, pos + 1, size)
            ELSE [s EXCEPT !.drv[k] = RealConnectBegin(AutoReconnectBegin(r)),
                           !.coll[i] = [at EXCEPT !.pc = "reconnect"]]
       ELSE collection_iterate(s, i, pos + 1, size)

ReadOutcomes == {"data", "none", "raise"}

collection_read_done_NoInnerTry(s, i, out) ==
  LET c == s.coll[i]
      store(r) == IF out = "data" THEN [r EXCEPT !.last_data = s.now] ELSE r IN
  IF out = "raise"
  THEN collection_loop_top(
         [s EXCEPT !.ev = Event("collect", "read_error", s.simulation_mode, 0)], i)
  ELSE collection_iterate(Update(s, c.d, store(Held(s, c.d))), i, c.pos, c.size)

\* lines 314-316 after a vendor read_data() answered; lines 321-322 catch
\* and log what it raises (the event "collect" / "read_error")
collection_read_done(s, i, out) ==
  LET c == s.coll[i]
      store(r) == IF out = "data" THEN [r EXCEPT !.last_data = s.now] ELSE r
      logged == IF out = "raise"
                THEN [s EXCEPT !.ev = Event("collect", "read_error", s.simulation_mode, 0)]
                ELSE s IN
  collection_iterate(Update(logged, c.d, store(Held(s, c.d))), i, c.pos, c.size)

\* line 319 after the connect() of auto_reconnect answered
collection_reconnect_done(s, i, out) ==
  LET c == s.coll[i]
      done(r) == AutoReconnectEnd(RealConnectEnd(r, out), out) IN
  collection_iterate(Update(s, c.d, done(Held(s, c.d))), i, c.pos, c.size)

\* ---- get_latest_data, lines 342-352: the timestamp returned, NoData for None
RECURSIVE latest_from(_, _, _, _)
latest_from(s, pos, latest_data, latest_timestamp) ==
  IF pos > Len(s.devices) THEN latest_data
  ELSE LET ld == s.drv[s.devices[pos]].last_data IN
       IF ld /= NoData /\ ld > latest_timestamp
       THEN latest_from(s, pos + 1, ld, ld)
       ELSE latest_from(s, pos + 1, latest_data, latest_timestamp)

get_latest_data(s) == latest_from(s, 1, NoData, 0)

\* ---- routers/hardware.py
\* enable_simulation, lines 276-282
enable_simulation(s) ==
  [enable_simulation_mode(Remove(DisconnectEach(s, Keys), Keys))
     EXCEPT !.ev = Event("enable", "done", TRUE, 0)]

\* disable_simulation, lines 298-303, up to the call of scan_devices
clear_simulation(s) ==
  LET sims == {k \in Range(s.devices) : s.drv[k].kind = "sim"} IN
  [Remove(DisconnectEach(s, sims), sims) EXCEPT !.simulation_mode = FALSE]

write_control_rejected_UnknownOnly(s, k) == k \notin Range(s.devices)

\* write_control, lines 356-363
write_control_rejected(s, k) ==
  \/ k \notin Range(s.devices)
  \/ s.drv[k].status /= "connected"

WriteOutcomes == {"true", "false", "raise"}

\* write_control, lines 376-380
write_control_result(out) == IF out = "true" THEN "true" ELSE "false"

\* ======================================================================
\* Spec: the actions
\* ======================================================================

Stamps == {drv[k].last_data : k \in Keys} \cup {last_scan}

\* datetime.now() as a step reads it: time may have moved on since the last
\* step.  Times are only compared with each other, so the model lets the
\* clock move on only from a time some timestamp has.
Clock == {now} \cup {t \in Times : t = now + 1 /\ now \in Stamps}

At(t) == [Cur EXCEPT !.now = t]

LiveScanLoops == scan_sleeping + (IF scan_pc["loop"] = "connect" THEN 1 ELSE 0)

LiveCollLoops == Cardinality({i \in Loops : coll[i].pc /= "none"})

PendingStart == IF scan_pc["start"] = "connect" THEN 1 ELSE 0

\* one call of scan_devices per kind of caller is followed at a time
CanCall(c) == scan_busy(Cur) \/ scan_pc[c] = "idle"

\* start(), called while fewer than n tasks of each loop are alive
StartWithin(n) ==
  /\ CanCall("start")
  /\ LiveScanLoops + PendingStart < n
  /\ LiveCollLoops + PendingStart < n
  /\ \E disc \in Discoveries, t \in Clock :
       Set(scan_devices([At(t) EXCEPT !.running = TRUE], "start", disc))
  /\ UNCHANGED <<hw, dcalls, simu, bus, pick, ws>>

\* start(); MaxLoops bounds the tasks alive
Start == StartWithin(MaxLoops)

Stop ==
  /\ Set(stop(Cur))
  /\ UNCHANGED <<hw, dcalls, simu, bus, pick, ws>>

\* POST /scan: the background task
ManualScan ==
  /\ CanCall("manual")
  /\ \E disc \in Discoveries, t \in Clock : Set(scan_devices(At(t), "manual", disc))
  /\ UNCHANGED <<hw, dcalls, simu, bus, pick, ws>>

EnableSimulation ==
  /\ Set(enable_simulation(Cur))
  /\ UNCHANGED <<hw, dcalls, simu, bus, pick, ws>>

DisableSimulation ==
  /\ CanCall("disable")
  /\ \E disc \in Discoveries, t \in Clock :
       Set(scan_devices(clear_simulation(At(t)), "disable", disc))
  /\ UNCHANGED <<hw, dcalls, simu, bus, pick, ws>>

scan_due_Always(s) == TRUE

\* _scan_loop, line 298
scan_due(s) == \A k \in Range(s.devices) : s.drv[k].status = "disconnected"

\* _scan_loop, lines 295-299: a sleeping task wakes up
ScanLoopWake ==
  /\ scan_sleeping > 0
  /\ CanCall("loop")
  /\ IF scan_due(Cur)
     THEN \E disc \in Discoveries, t \in Clock :
            Set(scan_devices([At(t) EXCEPT !.scan_sleeping = @ - 1], "loop", disc))
     ELSE Set(scan_loop_top([Cur EXCEPT !.scan_sleeping = @ - 1]))
  /\ UNCHANGED <<hw, dcalls, simu, bus, pick, ws>>

\* _connect_to_devices, lines 175-181: driver.connect() answered
ScanConnectReturn(c) ==
  /\ scan_pc[c] = "connect"
  /\ \E out \in ConnectOutcomes, t \in Clock :
       LET done(r) == RealConnectEnd(r, out) IN
       Set(connect_to_devices(
             [Update(At(t), scan_d[c], done(Held(Cur, scan_d[c]))) EXCEPT !.scan_pc[c] = "idle",
                                                  !.scan_d[c] = NoRef], c))
  /\ UNCHANGED <<hw, dcalls, simu, bus, pick, ws>>

\* _data_collection_loop, line 308: a sleeping task wakes up
CollWake(i) ==
  /\ coll[i].pc = "sleep"
  /\ \E t \in Clock : Set(collection_iterate(At(t), i, 1, Len(devices)))
  /\ UNCHANGED <<hw, dcalls, simu, bus, pick, ws>>

CollReadReturn(i) ==
  /\ coll[i].pc = "read"
  /\ \E out \in ReadOutcomes, t \in Clock : Set(collection_read_done(At(t), i, out))
  /\ UNCHANGED <<hw, dcalls, simu, bus, pick, ws>>

CollReconnectReturn(i) ==
  /\ coll[i].pc = "reconnect"
  /\ \E out \in ConnectOutcomes, t \in Clock :
       Set(collection_reconnect_done(At(t), i, out))
  /\ UNCHANGED <<hw, dcalls, simu, bus, pick, ws>>

\* POST /devices/{id}/reconnect, lines 197-201; one such request at a time
Reconnect(k) ==
  /\ req.d = NoRef
  /\ k \in Range(devices)
  /\ LET r == drv[k] IN
     IF AutoReconnectNoop(r)
     THEN Set([Cur EXCEPT !.ev = Event("reconnect", "true", simulation_mode, 0)])
     ELSE IF AutoReconnectTripped(r)
     THEN Set([Cur EXCEPT !.ev = Event("reconnect", "false", simulation_mode, 0)])
     ELSE IF r.kind = "sim"
     THEN Set([Cur EXCEPT !.drv[k] = AutoReconnectEnd(SimConnect(AutoReconnectBegin(r)), "ok"),
                          !.ev = Event("reconnect", "true", simulation_mode, 0)])
     ELSE Set([Cur EXCEPT !.drv[k] = RealConnectBegin(AutoReconnectBegin(r)),
                          !.req.d = k])
  /\ UNCHANGED <<hw, dcalls, simu, bus, pick, ws>>

ReconnectReturn ==
  /\ req.d /= NoRef
  /\ \E out \in ConnectOutcomes :
       LET done(r) == AutoReconnectEnd(RealConnectEnd(r, out), out) IN
       Set([Update(Cur, req.d, done(Held(Cur, req.d)))
              EXCEPT !.req.d = NoRef,
                     !.ev = Event("reconnect", AutoReconnectResult(out), simulation_mode, 0)])
  /\ UNCHANGED <<hw, dcalls, simu, bus, pick, ws>>

\* write_control(k, payload); one such request at a time
WriteControl(k) ==
  /\ req.w = NoRef
  /\ IF write_control_rejected(Cur, k)
     THEN Set([Cur EXCEPT !.ev = Event("write", "false", simulation_mode, 0)])
     ELSE IF drv[k].kind = "sim"
     THEN \E out \in {IF SimWrite(drv[k]) THEN "true" ELSE "false"} :
            Set([Cur EXCEPT !.ev = [Event("write", write_control_result(out), simulation_mode, 0)
                                      EXCEPT !.from = out]])
     ELSE Set([Cur EXCEPT !.req.w = k])
  /\ UNCHANGED <<hw, dcalls, simu, bus, pick, ws>>

WriteReturn ==
  /\ req.w /= NoRef
  /\ \E out \in WriteOutcomes :
       Set([Cur EXCEPT !.req.w = NoRef,
                       !.ev = [Event("write", write_control_result(out), simulation_mode, 0)
                                 EXCEPT !.from = out]])
  /\ UNCHANGED <<hw, dcalls, simu, bus, pick, ws>>

\* ======================================================================
\* The simulated plant (simulation/simulator.py)
\* ======================================================================
\* Powers are whole watts.  battery_soc is held in units of 1/SocScale
\* percent, which makes the two SOC updates exact: one hour at 0.1 W is one
\* unit (100 Ah at 48 V).  The uniform random draws are taken at the two
\* ends of their ranges.
SocScale == 480
max_solar_power == 5000
battery_capacity == 100
battery_voltage == 48
load_power_base == 800
day_start == 6
day_end == 18
peak_hour == 6

Abs(x) == IF x < 0 THEN 0 - x ELSE x

Least(x, y) == IF x < y THEN x ELSE y

Greatest(x, y) == IF x > y THEN x ELSE y

\* SimulationDriver.__init__ at hour t, with no snapshot produced yet
Plant(t) == [battery_soc |-> 75 * SocScale, last_update |-> t,
             solar_power_w |-> 0, reads |-> 0]

\* exp(-(h ** 2) / 8) in 1/10000, h whole hours from the peak
Bell(h) ==
  CASE h = 0 -> 10000
    [] h = 1 -> 8825
    [] h = 2 -> 6065
    [] h = 3 -> 3247
    [] h = 4 -> 1353
    [] h = 5 -> 439
    [] h = 6 -> 111
    [] OTHER -> 0

\* the draws of one read_data(): u of line 121 and w of line 124 in percent,
\* f of line 129, the factor of lines 142-148 (its low or its high end), g of
\* line 151
Draws ==
  [u : {0 - 10, 10}, w : {70, 100}, f : {0 - 50, 50}, hi : BOOLEAN, g : {0 - 100, 200}]

\* _calculate_solar_power, lines 105-131
calculate_solar_power(t, d) ==
  IF t < day_start \/ t > day_end
  THEN 0
  ELSE LET hours_since_sunrise == t - day_start
           time_from_peak == Abs(hours_since_sunrise - peak_hour)
           clear_sky == (max_solar_power * Bell(time_from_peak)) \div 10000
           solar_power == (((clear_sky * (100 + d.u)) \div 100) * d.w) \div 100 + d.f IN
       Greatest(0, solar_power)

\* _calculate_load_power, lines 133-153
calculate_load_power(t, d) ==
  LET hour == t % 24
      factor == IF 7 <= hour /\ hour <= 9 THEN (IF d.hi THEN 150 ELSE 120)
                ELSE IF 18 <= hour /\ hour <= 22 THEN (IF d.hi THEN 180 ELSE 130)
                ELSE IF hour >= 22 \/ hour <= 6 THEN (IF d.hi THEN 60 ELSE 30)
                ELSE 100 IN
  Greatest(0, (load_power_base * factor) \div 100 + d.g)

\* the SOC change of lines 165 and 172 for a power of p10 tenths of a watt
\* over time_diff hours
soc_change(p10, time_diff) ==
  p10 * time_diff * ((100 * SocScale) \div (battery_capacity * battery_voltage * 10))

\* _calculate_battery_power, lines 155-182: the new battery_soc
calculate_battery_power(soc, solar_power, load_power, time_diff) ==
  LET excess_power == solar_power - load_power IN
  IF excess_power > 0 /\ soc < 95 * SocScale
  THEN Least(95 * SocScale,
             soc + soc_change(Least(excess_power * 8, 2000 * 10), time_diff))
  ELSE IF excess_power < 0 /\ soc > 20 * SocScale
  THEN Greatest(20 * SocScale,
                soc - soc_change(Least(Abs(excess_power) * 9, 3000 * 10), time_diff))
  ELSE soc

\* read_data, lines 50-89, at hour t of the wall clock
read_data(s, t, d) ==
  LET time_diff == t - s.last_update
      solar_power == calculate_solar_power(t, d)
      load_power == calculate_load_power(t, d) IN
  [battery_soc |-> calculate_battery_power(s.battery_soc, solar_power, load_power, time_diff),
   last_update |-> t,
   solar_power_w |-> solar_power,
   reads |-> s.reads + 1]

\* ======================================================================
\* The bus scan (protocols/modbus_rtu.py, scan_modbus_devices)
\* ======================================================================
\* One call: n baud rates, m candidate addresses, the baud rate b and the
\* address a it is at (by their place in the two lists), found_devices, the
\* number of test_connection and _identify_device calls made so far, per
\* baud rate the last address probed and the number of client.connect()
\* calls made, and the baud rates whose ModbusRTUClient is open (connected).
NoScan == [pc |-> "idle", n |-> 0, m |-> 0, b |-> 0, a |-> 0, found |-> <<>>,
           tests |-> 0, idents |-> 0, last |-> [r \in 1..MaxBaud |-> 0],
           opens |-> [r \in 1..MaxBaud |-> 0], open |-> {}]

\* lines 200-204: the next baud rate, or line 222
next_baud(s) ==
  IF s.b >= s.n
  THEN [s EXCEPT !.pc = "done"]
  ELSE [s EXCEPT !.b = @ + 1, !.a = 0, !.pc = "connect", !.opens[s.b + 1] = @ + 1]

bus_disconnect_Skipped(s) == next_baud(s)

\* line 220, after the loop over the addresses ended or was left by break:
\* client.disconnect() (lines 50-55) closes the client if it is connected
bus_disconnect(s) == next_baud([s EXCEPT !.open = @ \ {s.b}])

\* lines 205-208: the next address and its test_connection, or line 220
next_slave(s) ==
  IF s.a >= s.m
  THEN bus_disconnect(s)
  ELSE [s EXCEPT !.a = @ + 1, !.pc = "test", !.tests = @ + 1, !.last[s.b] = s.a + 1]

\* line 204: client.connect() (lines 26-48) answered; the client is open
\* when it answered True
bus_connected(s, ok) ==
  IF ok THEN next_slave([s EXCEPT !.open = @ \cup {s.b}]) ELSE next_baud(s)

\* lines 208-210 and 217-218: test_connection answered or raised
bus_tested(s, out) ==
  IF out = "true"
  THEN [s EXCEPT !.pc = "identify", !.idents = @ + 1]
  ELSE next_slave(s)

bus_identified_NoBreak(s) == next_slave([s EXCEPT !.found = Append(@, <<s.b, s.a>>)])

\* lines 212-216: a device identified, and the break
bus_identified(s) == bus_disconnect([s EXCEPT !.found = Append(@, <<s.b, s.a>>)])

bus_identify_done_GivesUp(s, info) == IF info THEN bus_identified(s) ELSE next_baud(s)

\* line 211
bus_identify_done(s, info) == IF info THEN bus_identified(s) ELSE next_slave(s)

\* ======================================================================
\* Driver selection (device_manager.py, _create_driver)
\* ======================================================================
\* An identification tag is a sequence of characters.  The tags followed are
\* the concatenations of up to MaxParts of these fragments: the keywords,
\* two of them also in upper case, pieces that make a keyword only across
\* a boundary (s + ma, sun + ny), and text with no keyword.
Fragments ==
  { <<"g", "r", "o", "w", "a", "t", "t">>,
    <<"s", "p", "f">>,
    <<"d", "e", "y", "e">>,
    <<"s", "u", "n">>,
    <<"s", "m", "a">>,
    <<"s", "u", "n", "n", "y">>,
    <<"S", "M", "A">>,
    <<"S", "u", "n", "n", "y">>,
    <<"s">>,
    <<"m", "a">>,
    <<"n", "y">>,
    <<"x", "-", "1">> }

RECURSIVE Joined(_)
Joined(n) ==
  IF n = 0 THEN {<<>>}
  ELSE Joined(n - 1) \cup {s \o f : s \in Joined(n - 1), f \in Fragments}

Identifications == Joined(MaxParts)

\* str.lower(), on the characters the fragments use
LowerChar(c) ==
  CASE c = "S" -> "s"
    [] c = "M" -> "m"
    [] c = "A" -> "a"
    [] OTHER -> c

lower(s) == [i \in DOMAIN s |-> LowerChar(s[i])]

\* w in s, for strings
In(w, s) == \E i \in 1..(Len(s) - Len(w) + 1) : SubSeq(s, i, i + Len(w) - 1) = w

NoPick == [identification |-> <<>>, driver |-> "none"]

\* _create_driver, lines 187-201: the _create_*_driver it calls
create_driver(tag) ==
  LET identification == lower(tag) IN
  IF In(<<"g", "r", "o", "w", "a", "t", "t">>, identification) \/ In(<<"s", "p", "f">>, identification)
  THEN "growatt"
  ELSE IF In(<<"d", "e", "y", "e">>, identification) \/ In(<<"s", "u", "n">>, identification)
  THEN "deye"
  ELSE IF In(<<"s", "m", "a">>, identification) \/ In(<<"s", "u", "n", "n", "y">>, identification)
  THEN "sma"
  ELSE "generic"

\* ======================================================================
\* The WebSocket manager's update loop (services/websocket_manager.py)
\* ======================================================================
\* update_task: the task self.update_task refers to, 0 for None.  task[t]:
\* where the t-th task created is: "none" (not created), "ready" (created,
\* not yet run), "send" (inside broadcast_data, awaiting a send_text),
\* "sleep" (line 98), "retry" (line 104, inside the except handler), "done".
\* cancel[t]: task.cancel() was called and the CancelledError is still to be
\* delivered.  stop[c]: the task the stop_update_loop() of caller c awaits,
\* 0 when it awaits none.
Upd == 1..MaxUpd

Stoppers == 1..MaxStoppers

\* WebSocketManager.__init__, line 20
NoLoop == [update_task |-> 0,
           task |-> [t \in Upd |-> "none"],
           cancel |-> [t \in Upd |-> FALSE],
           stop |-> [c \in Stoppers |-> 0]]

update_loop_busy_Never(s) == FALSE

\* lines 73 and 81: self.update_task and not self.update_task.done()
update_loop_busy(s) == s.update_task /= 0 /\ s.task[s.update_task] /= "done"

\* start_update_loop, lines 73-77, creating the task t
start_update_loop(s, t) ==
  IF update_loop_busy(s)
  THEN s
  ELSE [s EXCEPT !.update_task = t, !.task[t] = "ready"]

\* stop_update_loop, lines 81-83, up to await self.update_task
stop_update_loop(s, c) ==
  IF update_loop_busy(s)
  THEN [s EXCEPT !.cancel[s.update_task] = TRUE, !.stop[c] = s.update_task]
  ELSE s

\* what one iteration of _update_loop comes to: get_current_data() raised
\* (line 102, then the sleep of line 104), there is no connection
\* (broadcast_data returns at once, then the sleep of line 98), or a
\* send_text is awaited
Iterations == {"retry", "sleep", "send"}

\* _update_loop, lines 88-104: the task t is resumed.  A cancellation is
\* delivered where the task is suspended: a task not yet run never starts,
\* inside the try (lines 94 and 98) line 100 catches it and breaks, inside
\* the handler (line 104) it leaves the coroutine.  Otherwise the awaited
\* send_text or sleep has ended: after the sends comes the sleep of line 98
\* (or line 102 when the iteration over the connections raised), after a
\* sleep the next iteration.
update_loop(s, t, to) ==
  IF s.cancel[t]
  THEN [s EXCEPT !.task[t] = "done", !.cancel[t] = FALSE]
  ELSE IF s.task[t] = "send" /\ to = "send"
  THEN [s EXCEPT !.task[t] = "sleep"]
  ELSE [s EXCEPT !.task[t] = to]

\* DeviceManager.__init__, lines 24-30
Quiet ==
  /\ simulation_mode = FALSE
  /\ scanning = FALSE
  /\ running = FALSE
  /\ last_scan = NoData
  /\ scan_pc = [c \in Callers |-> "idle"]
  /\ scan_found = [c \in Callers |-> <<>>]
  /\ scan_avail = [c \in Callers |-> {}]
  /\ scan_d = [c \in Callers |-> NoRef]
  /\ scan_n = [c \in Callers |-> 0]
  /\ scan_sleeping = 0
  /\ coll = [i \in Loops |-> NoCall]
  /\ req = NoReq
  /\ ev = NoEvent
  /\ left = {}
  /\ now = 1
  /\ dcalls = [c \in DCallers |-> "none"]
  /\ bus = NoScan
  /\ pick = NoPick
  /\ ws = NoLoop

Constructed ==
  /\ drv = [k \in Keys |-> Blank]
  /\ devices = <<>>
  /\ simu = Plant(0)
  /\ Quiet

Init == Constructed /\ hw = TRUE

Next ==
  \/ Start
  \/ Stop
  \/ ManualScan
  \/ EnableSimulation
  \/ DisableSimulation
  \/ ScanLoopWake
  \/ \E c \in Callers : ScanConnectReturn(c)
  \/ \E i \in Loops : CollWake(i)
  \/ \E i \in Loops : CollReadReturn(i)
  \/ \E i \in Loops : CollReconnectReturn(i)
  \/ \E k \in Keys : Reconnect(k)
  \/ ReconnectReturn
  \/ \E k \in Keys : WriteControl(k)
  \/ WriteReturn

Spec == Init /\ [][Next]_vars

\* ---- SpecFair: Spec with the event loop's fairness for a scan: the
\* driver.connect() a scan awaits answers (a connect has its timeout) and the
\* scan is then resumed
FairScans == \A c \in Callers : WF_vars(ScanConnectReturn(c))

SpecFair == Init /\ [][Next]_vars /\ FairScans

\* ---- SpecScans: the Device Manager when nothing but scans is called
\* (start, the scan loop, POST /scan)
NextScans ==
  \/ Start
  \/ ManualScan
  \/ ScanLoopWake
  \/ \E c \in Callers : ScanConnectReturn(c)

SpecScans == Init /\ [][NextScans]_vars

\* ---- SpecLifecycle: start() and stop() called in any order and any number
\* of times (MaxTasks bounds the tasks alive), with the loops they create
StartAgain == StartWithin(MaxTasks)

NextLifecycle ==
  \/ StartAgain
  \/ Stop
  \/ ScanLoopWake
  \/ \E c \in Callers : ScanConnectReturn(c)
  \/ \E i \in Loops : CollWake(i)
  \/ \E i \in Loops : CollReadReturn(i)
  \/ \E i \in Loops : CollReconnectReturn(i)

SpecLifecycle == Init /\ [][NextLifecycle]_vars

\* ---- SpecPlant: the Simulation Driver's read_data() at any hour of the wall
\* clock (datetime.now() is the local wall clock: it can be set back)
SimReadData ==
  /\ simu.reads < MaxReads
  /\ \E t \in Hours, d \in Draws : simu' = read_data(simu, t, d)
  /\ UNCHANGED <<drv, Mgr, ev, left, now, hw, dcalls, bus, pick, ws>>

InitPlant ==
  /\ drv = [k \in Keys |-> Blank]
  /\ devices = <<>>
  /\ Quiet
  /\ hw = TRUE
  /\ \E t \in {h \in Hours : h < 24} : simu = Plant(t)

NextPlant == SimReadData

SpecPlant == InitPlant /\ [][NextPlant]_vars

\* ---- SpecBus: scan_modbus_devices
BusScan ==
  /\ bus.pc = "idle"
  /\ \E n \in 0..MaxBaud, m \in 0..MaxAddr :
       bus' = next_baud([NoScan EXCEPT !.n = n, !.m = m])
  /\ UNCHANGED <<drv, Mgr, ev, left, now, hw, dcalls, simu, pick, ws>>

BusConnectReturn ==
  /\ bus.pc = "connect"
  /\ \E ok \in BOOLEAN : bus' = bus_connected(bus, ok)
  /\ UNCHANGED <<drv, Mgr, ev, left, now, hw, dcalls, simu, pick, ws>>

BusTestReturn ==
  /\ bus.pc = "test"
  /\ \E out \in {"true", "false", "raise"} : bus' = bus_tested(bus, out)
  /\ UNCHANGED <<drv, Mgr, ev, left, now, hw, dcalls, simu, pick, ws>>

BusIdentifyReturn ==
  /\ bus.pc = "identify"
  /\ \E info \in BOOLEAN : bus' = bus_identify_done(bus, info)
  /\ UNCHANGED <<drv, Mgr, ev, left, now, hw, dcalls, simu, pick, ws>>

NextBus ==
  \/ BusScan
  \/ BusConnectReturn
  \/ BusTestReturn
  \/ BusIdentifyReturn

SpecBus == Init /\ [][NextBus]_vars

\* ---- SpecSelect: _create_driver on any identification tag
CreateDriver ==
  /\ \E tag \in Identifications :
       pick' = [identification |-> tag, driver |-> create_driver(tag)]
  /\ UNCHANGED <<drv, Mgr, ev, left, now, hw, dcalls, simu, bus, ws>>

NextSelect == CreateDriver

SpecSelect == Init /\ [][NextSelect]_vars

\* ---- SpecUpdates: the WebSocket manager's update loop under any
\* interleaving of start_update_loop(), stop_update_loop() and the task
FreeUpd == {t \in Upd : ws.task[t] = "none"}

StartUpdateLoop ==
  /\ FreeUpd /= {}
  /\ \E t \in {u \in FreeUpd : \A v \in FreeUpd : u <= v} :
       /\ ws' = start_update_loop(ws, t)
       /\ ev' = Event("start_update_loop",
                      IF update_loop_busy(ws) THEN "running" ELSE "created", FALSE, 0)
  /\ UNCHANGED <<drv, Mgr, left, now, hw, dcalls, simu, bus, pick>>

StopUpdateLoop(c) ==
  /\ ws.stop[c] = 0
  /\ ws' = stop_update_loop(ws, c)
  /\ ev' = IF update_loop_busy(ws) THEN NoEvent
           ELSE Event("stop_update_loop", "returned", FALSE, 0)
  /\ UNCHANGED <<drv, Mgr, left, now, hw, dcalls, simu, bus, pick>>

\* lines 84-88: the awaited task is done
StopUpdateLoopReturn(c) ==
  /\ ws.stop[c] /= 0
  /\ ws.task[ws.stop[c]] = "done"
  /\ ws' = [ws EXCEPT !.stop[c] = 0]
  /\ ev' = Event("stop_update_loop", "returned", FALSE, ws.stop[c])
  /\ UNCHANGED <<drv, Mgr, left, now, hw, dcalls, simu, bus, pick>>

UpdateLoopStep(t) ==
  /\ ws.task[t] \notin {"none", "done"}
  /\ \E to \in Iterations : ws' = update_loop(ws, t, to)
  /\ ev' = NoEvent
  /\ UNCHANGED <<drv, Mgr, left, now, hw, dcalls, simu, bus, pick>>

NextUpdates ==
  \/ StartUpdateLoop
  \/ \E c \in Stoppers : StopUpdateLoop(c)
  \/ \E c \in Stoppers : StopUpdateLoopReturn(c)
  \/ \E t \in Upd : UpdateLoopStep(t)

SpecUpdates == Init /\ [][NextUpdates]_vars

\* ---- SpecFaults: the Device Manager's public operations when a vendor
\* Driver's disconnect() may also raise (Spec takes disconnect() to do what
\* the Driver contract says: set Disconnected, raise nothing)
\* stop(), lines 72-76, when the disconnect() of the Driver under k raises:
\* the Drivers before it in the table are disconnected, and the exception
\* leaves stop() before line 78
stop_raised(s, k) ==
  LET at == CHOOSE p \in DOMAIN s.devices : s.devices[p] = k
      before == {s.devices[p] : p \in 1..(at - 1)} IN
  [DisconnectEach([s EXCEPT !.running = FALSE], before)
     EXCEPT !.ev = Event("stop", "raised", s.simulation_mode, 0)]

StopOrRaise ==
  /\ \E k \in {NoRef} \cup {d \in Range(devices) : drv[d].kind = "real"} :
       Set(IF k = NoRef THEN stop(Cur) ELSE stop_raised(Cur, k))
  /\ UNCHANGED <<hw, dcalls, simu, bus, pick, ws>>

NextFaults ==
  \/ Start
  \/ StopOrRaise
  \/ ManualScan
  \/ ScanLoopWake
  \/ \E c \in Callers : ScanConnectReturn(c)
  \/ \E k \in Keys : WriteControl(k)
  \/ WriteReturn

SpecFaults == Init /\ [][NextFaults]_vars

\* ---- SpecNoHw: the Device Manager after start() when no hardware answers
\* (scans may also be asked for by hand), with the event loop's fairness: a task whose sleep has ended or whose
\* connect() has answered (a connect has its timeout) is eventually run
InitNoHw == Constructed /\ hw = FALSE

NextNoHw ==
  \/ Start
  \/ ManualScan
  \/ ScanLoopWake
  \/ \E c \in Callers : ScanConnectReturn(c)
  \/ \E i \in Loops : CollWake(i)
  \/ \E i \in Loops : CollReconnectReturn(i)

FairLoops ==
  /\ WF_vars(ScanLoopWake)
  /\ \A c \in Callers : WF_vars(ScanConnectReturn(c))
  /\ \A i \in Loops : WF_vars(CollWake(i))
  /\ \A i \in Loops : WF_vars(CollReconnectReturn(i))

SpecNoHw == InitNoHw /\ [][NextNoHw]_vars /\ FairLoops


\* ======================================================================
\* SpecDriver: one Driver, drv[TheDrv], whose public operations are called
\* in any order by MaxCallers callers; a call on a vendor Driver is in
\* flight (dcalls) between its start and its answer
\* ======================================================================

Drv == drv[TheDrv]

DStep(c, r, call, e) ==
  /\ drv' = [drv EXCEPT ![TheDrv] = r]
  /\ dcalls' = [dcalls EXCEPT ![c] = call]
  /\ ev' = e
  /\ UNCHANGED <<Mgr, left, now, hw, simu, bus, pick, ws>>

Idle(c) == dcalls[c] = "none"

Result(op, val) == Event(op, val, FALSE, 0)

\* connect()
DConnect(c) ==
  /\ Idle(c)
  /\ IF Drv.kind = "sim"
     THEN DStep(c, SimConnect(Drv), "none", Result("connect", "true"))
     ELSE DStep(c, RealConnectBegin(Drv), "connect", NoEvent)

DConnectReturn(c) ==
  /\ dcalls[c] = "connect"
  /\ \E out \in ConnectOutcomes :
       DStep(c, RealConnectEnd(Drv, out), "none", Result("connect", AutoReconnectResult(out)))

\* disconnect()
DDisconnect(c) ==
  /\ Idle(c)
  /\ DStep(c, Disconnect(Drv), "none", NoEvent)

\* auto_reconnect()
DAutoReconnect(c) ==
  /\ Idle(c)
  /\ IF AutoReconnectNoop(Drv)
     THEN DStep(c, Drv, "none", Result("auto_reconnect", "true"))
     ELSE IF AutoReconnectTripped(Drv)
     THEN DStep(c, Drv, "none", Result("auto_reconnect", "false"))
     ELSE IF Drv.kind = "sim"
     THEN DStep(c, AutoReconnectEnd(SimConnect(AutoReconnectBegin(Drv)), "ok"), "none",
                Result("auto_reconnect", "true"))
     ELSE DStep(c, RealConnectBegin(AutoReconnectBegin(Drv)), "auto_reconnect", NoEvent)

DAutoReconnectReturn(c) ==
  /\ dcalls[c] = "auto_reconnect"
  /\ \E out \in ConnectOutcomes :
       DStep(c, AutoReconnectEnd(RealConnectEnd(Drv, out), out), "none",
             Result("auto_reconnect", AutoReconnectResult(out)))

\* health_check(); SimulationDriver.test_connection returns True
DHealthCheck(c) ==
  /\ Idle(c)
  /\ IF Drv.kind = "sim"
     THEN DStep(c, HealthCheckEnd(Drv, "true"), "none",
                Result("health_check", HealthCheckResult("true")))
     ELSE DStep(c, Drv, "health_check", NoEvent)

DHealthCheckReturn(c) ==
  /\ dcalls[c] = "health_check"
  /\ \E out \in ProbeOutcomes :
       DStep(c, HealthCheckEnd(Drv, out), "none", Result("health_check", HealthCheckResult(out)))

\* read_data()
DRead(c) ==
  /\ Idle(c)
  /\ IF Drv.kind = "sim"
     THEN DStep(c, SimRead(Drv, now), "none", Result("read_data", "data"))
     ELSE DStep(c, Drv, "read_data", NoEvent)

DReadReturn(c) ==
  /\ dcalls[c] = "read_data"
  /\ \E out \in ReadOutcomes : DStep(c, Drv, "none", Result("read_data", out))

\* write_control(control)
DWrite(c) ==
  /\ Idle(c)
  /\ IF Drv.kind = "sim"
     THEN DStep(c, Drv, "none", Result("write_control", IF SimWrite(Drv) THEN "true" ELSE "false"))
     ELSE IF RealWriteAllowed(Drv)
     THEN DStep(c, Drv, "write_control", NoEvent)
     ELSE DStep(c, Drv, "none", Result("write_control", "false"))

DWriteReturn(c) ==
  /\ dcalls[c] = "write_control"
  /\ \E out \in WriteOutcomes : DStep(c, Drv, "none", Result("write_control", out))

\* a Driver as its constructor leaves it (a Simulation or a vendor Driver)
InitDriver ==
  /\ \E r \in {SimulationDriver, VendorDriver} :
       drv = [k \in Keys |-> IF k = TheDrv THEN r ELSE Blank]
  /\ devices = <<>>
  /\ simulation_mode = FALSE
  /\ scanning = FALSE
  /\ running = FALSE
  /\ last_scan = NoData
  /\ scan_pc = [c \in Callers |-> "idle"]
  /\ scan_found = [c \in Callers |-> <<>>]
  /\ scan_avail = [c \in Callers |-> {}]
  /\ scan_d = [c \in Callers |-> NoRef]
  /\ scan_n = [c \in Callers |-> 0]
  /\ scan_sleeping = 0
  /\ coll = [i \in Loops |-> NoCall]
  /\ req = NoReq
  /\ ev = NoEvent
  /\ left = {}
  /\ now = 1
  /\ hw = TRUE
  /\ dcalls = [c \in DCallers |-> "none"]
  /\ simu = Plant(0)
  /\ bus = NoScan
  /\ pick = NoPick
  /\ ws = NoLoop

NextDriver ==
  \/ \E c \in DCallers : DConnect(c)
  \/ \E c \in DCallers : DConnectReturn(c)
  \/ \E c \in DCallers : DDisconnect(c)
  \/ \E c \in DCallers : DAutoReconnect(c)
  \/ \E c \in DCallers : DAutoReconnectReturn(c)
  \/ \E c \in DCallers : DHealthCheck(c)
  \/ \E c \in DCallers : DHealthCheckReturn(c)
  \/ \E c \in DCallers : DRead(c)
  \/ \E c \in DCallers : DReadReturn(c)
  \/ \E c \in DCallers : DWrite(c)
  \/ \E c \in DCallers : DWriteReturn(c)

SpecDriver == InitDriver /\ [][NextDriver]_vars


\* ======================================================================
\* SpecLatest: get_latest_data() applied to any device table whose Drivers
\* hold no snapshot or a snapshot with a timestamp in 0..MaxStamp
\* (DeviceData.timestamp is a float: any number)
\* ======================================================================

StampValues == 0..MaxStamp

\* the device tables: the keys in any insertion order
Tables == {q \in UNION {[1..n -> Keys] : n \in 0..Cardinality(Keys)} :
             \A i, j \in DOMAIN q : i /= j => q[i] /= q[j]}

WithData(k, t) ==
  [(IF k = SimKey THEN SimConnect(SimulationDriver) ELSE VendorDriver) EXCEPT !.last_data = t]

InitLatest ==
  /\ devices \in Tables
  /\ drv \in {f \in [Keys -> {Blank} \cup {WithData(k, t) : k \in Keys, t \in {NoData} \cup StampValues}] :
               \A k \in Keys : IF k \in Range(devices)
                                THEN \E t \in {NoData} \cup StampValues : f[k] = WithData(k, t)
                                ELSE f[k] = Blank}
  /\ Quiet
  /\ simu = Plant(0)
  /\ hw = TRUE

\* GET /data/latest: device_manager.get_latest_data(); ev.n is the timestamp
\* of the snapshot returned, NoData for None
Latest ==
  /\ ev.op = "none"
  /\ ev' = Event("latest", "done", simulation_mode, get_latest_data(Cur))
  /\ UNCHANGED <<drv, Mgr, left, now, hw, dcalls, simu, bus, pick, ws>>

NextLatest == Latest

SpecLatest == InitLatest /\ [][NextLatest]_vars

\* ======================================================================
\* The Drivers' claims
\* ======================================================================

Breaker(r) == r.connection_attempts >= max_retries /\ r.status \notin {"connected", "connecting"}

\* C6: auto_reconnect is a circuit breaker.  A call that finds
\* connection_attempts >= max_retries and a status other than Connected and
\* Connecting returns false, calls no connect() and changes neither status
\* nor counter; a call that calls connect() has incremented the counter by
\* exactly one; a connect() that succeeded leaves the counter at 0.
C6_CircuitBreaker ==
  [][\A c \in DCallers :
       /\ (DAutoReconnect(c) /\ Breaker(Drv)) =>
            (ev'.val = "false" /\ drv' = drv /\ dcalls' = dcalls)
       /\ (DAutoReconnect(c) /\ dcalls'[c] = "auto_reconnect") =>
            drv'[TheDrv].connection_attempts = Drv.connection_attempts + 1
       /\ (DAutoReconnect(c) /\ ~AutoReconnectNoop(Drv) /\ ev'.val = "true") =>
            drv'[TheDrv].connection_attempts = 0
       /\ (DAutoReconnectReturn(c) /\ ev'.val = "true") =>
            drv'[TheDrv].connection_attempts = 0]_vars

\* C6 witness: the breaker has just refused a call
C6_Witness ==
  /\ Breaker(Drv)
  /\ Drv.connection_attempts = max_retries
  /\ ev.op = "auto_reconnect"
  /\ ev.val = "false"
  /\ \A c \in DCallers : dcalls[c] = "none"

\* C7: 0 <= connection_attempts <= max_retries in every state of a Driver
C7_AttemptsBounded ==
  \A k \in Keys : drv[k].connection_attempts \in 0..max_retries

\* C7 witness: the counter at its maximum, with a reconnect and another call in flight
C7_Witness ==
  /\ Drv.connection_attempts = max_retries
  /\ \E c, e \in DCallers : dcalls[c] = "auto_reconnect" /\ dcalls[e] = "health_check"

\* ======================================================================
\* The Device Manager's claims
\* ======================================================================

ScanVars == <<scan_pc, scan_found, scan_avail, scan_d, scan_n>>

InFlight == {c \in Callers : scan_pc[c] = "connect"}

\* C1: at most one scan body executes at a time.  A scan_devices() called
\* while scanning holds returns status "scanning", starts no discovery and no
\* connect, and leaves the device table, simulation_mode, last_scan and
\* scanning as they were, for each caller: start(), the scan loop, POST /scan
\* and disable_simulation (whose own removal of the Simulation Drivers comes
\* before its call of scan_devices).
C1_ScanExclusive ==
  [][/\ Cardinality({c \in Callers : scan_pc'[c] = "connect"}) <= 1
     /\ ({c \in Callers : scan_pc'[c] = "connect"} /= {}) => scanning'
     /\ (scanning /\ (Start \/ ManualScan)) =>
          /\ ev'.op = "scan" /\ ev'.val = "scanning"
          /\ UNCHANGED <<drv, devices, simulation_mode, last_scan, scanning, ScanVars>>
     /\ (scanning /\ ScanLoopWake) =>
          /\ (\A k \in Range(devices) : drv[k].status = "disconnected") =>
               (ev'.op = "scan" /\ ev'.val = "scanning")
          /\ UNCHANGED <<drv, devices, simulation_mode, last_scan, scanning, ScanVars>>
     /\ (scanning /\ DisableSimulation) =>
          /\ ev'.op = "scan" /\ ev'.val = "scanning"
          /\ drv' = clear_simulation(Cur).drv
          /\ devices' = clear_simulation(Cur).devices
          /\ simulation_mode' = FALSE
          /\ UNCHANGED <<last_scan, scanning, scan_pc, scan_found, scan_avail, scan_n>>]_vars

\* C1 witness: a scan has just been refused while another one awaits a connect()
C1_Witness ==
  /\ ev.op = "scan"
  /\ ev.val = "scanning"
  /\ scanning
  /\ InFlight /= {}

\* C2: after a scan that ran to its end, simulation_mode holds if and only
\* if that scan found no device or failed
C2_SimulationIffLastScanEmpty ==
  (ev.op = "scan" /\ ev.val \in {"completed", "error"}) =>
    (simulation_mode <=> (ev.val = "error" \/ ev.n = 0))

LoopStep ==
  \/ ScanLoopWake
  \/ ScanConnectReturn("loop")
  \/ \E i \in Loops : CollWake(i) \/ CollReadReturn(i) \/ CollReconnectReturn(i)

\* C3: once stop() has returned and until start() is called again (running
\* is false), no step of the scan loop or of the collection loop scans,
\* reads or reconnects: the device table, the Drivers, simulation_mode,
\* last_scan and scanning stay as they are
C3_StopCancelsLoops ==
  [][(~running /\ LoopStep) =>
       UNCHANGED <<drv, devices, simulation_mode, last_scan, scanning, scan_pc>>]_vars

\* C4: when stop() returns the device table is empty and every Driver it
\* contained has status Disconnected, whatever calls are in flight
C4_StopDisconnectsAll ==
  (ev.op = "stop" /\ ev.val = "done") =>
    /\ devices = <<>>
    /\ \A k \in Keys : drv[k] = Blank
    /\ left \subseteq {"disconnected"}
    /\ ~running

\* C4 witness: stop() has returned with Drivers taken out of the table, one
\* of them in the middle of a scan's connect() and one of a collection step
C4_Witness ==
  /\ ev.op = "stop"
  /\ ev.val = "done"
  /\ "disconnected" \in left
  /\ \/ \E c \in Callers : scan_pc[c] = "connect" /\ scan_d[c] = Gone
     \/ \E i \in Loops : coll[i].pc \in {"read", "reconnect"} /\ coll[i].d = Gone

\* C5: write_control returns false, calls no Driver and leaves the device
\* table alone when the id is not in the table or its Driver is not
\* Connected; otherwise it calls the Driver's write_control and returns what
\* that returns, false when it raises
C5_WriteControl ==
  [][/\ \A k \in Keys :
          (WriteControl(k) /\ (k \notin Range(devices) \/ drv[k].status /= "connected")) =>
            /\ ev'.op = "write" /\ ev'.val = "false" /\ ev'.from = "none"
            /\ UNCHANGED <<drv, devices, req>>
     /\ \A k \in Keys :
          (WriteControl(k) /\ k \in Range(devices) /\ drv[k].status = "connected") =>
            /\ \/ req'.w = k /\ ev'.op = "none"
               \/ ev'.op = "write" /\ ev'.from \in {"true", "false"} /\ ev'.val = ev'.from
            /\ UNCHANGED <<drv, devices>>
     /\ WriteReturn =>
          /\ ev'.op = "write"
          /\ ev'.from \in WriteOutcomes
          /\ ev'.val = (IF ev'.from = "raise" THEN "false" ELSE ev'.from)
          /\ UNCHANGED <<drv, devices>>]_vars

\* C5 witness: a write to a Driver in the table that is not Connected has
\* just been refused
C5_Witness ==
  /\ ev.op = "write"
  /\ ev.val = "false"
  /\ ev.from = "none"
  /\ \E k \in Range(devices) : drv[k].kind = "real" /\ drv[k].status /= "connected"

\* C8: a Driver whose status is Connected has no last_error
C8_ConnectedWithoutError ==
  \A k \in Keys : drv[k].status = "connected" => drv[k].last_error = Null

\* C9: with no hardware answering, once started the Device Manager
\* eventually is in simulation mode with get_latest_data() returning data
C9_SimulationFallback ==
  [](running => <>(simulation_mode /\ get_latest_data(Cur) /= NoData))

NoAdapters == ev.op = "scan" /\ ev.val = "completed" /\ ev.n = 0

\* C10: after a scan that found no adapter, whatever the device table
\* contained before, the scan returned simulationMode true and the table has
\* exactly one entry, a Simulation Driver under "simulator", Connected
C10_ExactlyOneEntry ==
  NoAdapters =>
    /\ ev.sim
    /\ devices = <<SimKey>>
    /\ drv[SimKey].kind = "sim"
    /\ drv[SimKey].status = "connected"

\* the timestamps of the last snapshots the Drivers of the table hold
Snapshots == {drv[k].last_data : k \in Range(devices)} \ {NoData}

\* C11: get_latest_data() returns None if and only if no Driver of the table
\* has a last snapshot, and otherwise a snapshot of the table whose
\* timestamp is at least every Driver's, for every timestamp, 0 included
C11_LatestIsGreatest ==
  ev.op = "latest" =>
    /\ ev.n = NoData <=> Snapshots = {}
    /\ ev.n /= NoData => (ev.n \in Snapshots /\ \A t \in Snapshots : ev.n >= t)

\* C12: start() and stop() are idempotent.  At most one scan loop and one
\* collection loop are alive at any time; a start() that follows a start()
\* that has returned adds no task; a stop() that follows a stop() changes
\* nothing
C12_LifecycleIdempotent ==
  [][/\ LiveScanLoops' <= 1
     /\ LiveCollLoops' <= 1
     /\ (StartAgain /\ running /\ PendingStart = 0) =>
          (LiveScanLoops' = LiveScanLoops /\ LiveCollLoops' = LiveCollLoops)
     /\ (Stop /\ ev.op = "stop") =>
          UNCHANGED <<drv, devices, simulation_mode, scanning, running, last_scan,
                      ScanVars, scan_sleeping, coll, req>>]_vars

\* C13: no collection-loop iteration is aborted by a change of the device
\* table made while it was suspended in a Driver call: none ends with the
\* loop's error handler (line 324) and entries left to visit
C13_IterationSurvivesMutation ==
  ~(ev.op = "collect" /\ ev.val = "error")

\* the entries from..upto of the table were processed by the step: a
\* Connected Simulation Driver was read, and no vendor Driver that the loop
\* reads or reconnects was passed over
Processed(from, upto) ==
  \A p \in from..upto :
    LET k == devices[p] IN
    /\ (drv[k].kind = "sim" /\ drv[k].status = "connected") => drv'[k].last_data = now'
    /\ drv[k].kind = "real" =>
         /\ drv[k].status /= "connected"
         /\ ~(drv[k].status = "error" /\ ~AutoReconnectTripped(drv[k]))

\* the last entry the step went past: the one before the Driver it is
\* suspended on, or the last of the table
WentPast(i) ==
  IF coll'[i].pc \in {"read", "reconnect"} THEN coll'[i].pos - 2 ELSE coll[i].size

\* C14: a read that raises, or a reconnect that fails, in a collection-loop
\* iteration does not end the loop and the iteration goes on to process the
\* Drivers after it; a scan-loop iteration, failing or not, does not end the
\* scan loop while running holds
C14_LoopsTolerateFailures ==
  [][/\ \A i \in Loops :
          /\ (running' /\ coll[i].pc /= "none") => coll'[i].pc /= "none"
          /\ (ev'.op = "collect" /\ ev'.val = "read_error" /\ CollReadReturn(i)) =>
               Processed(coll[i].pos, WentPast(i))
          /\ (coll[i].pc = "reconnect" /\ coll'[i] /= coll[i] /\ ev'.op /= "collect"
                /\ coll[i].d \in Keys /\ drv'[coll[i].d].status = "error"
                /\ CollReconnectReturn(i)) =>
               Processed(coll[i].pos, WentPast(i))
     /\ (running' /\ LiveScanLoops' /= LiveScanLoops) =>
          ~(ScanLoopWake \/ ScanConnectReturn("loop"))]_vars

\* C14 witness: a vendor Driver's read has raised and the Simulation Driver
\* after it in the table was read by the same step
C14_Witness ==
  /\ ev.op = "collect"
  /\ ev.val = "read_error"
  /\ devices = <<1, SimKey>>
  /\ drv[SimKey].last_data = now
  /\ \E i \in Loops : coll[i].pc = "sleep"

\* C15: no exception leaves a public operation of the Device Manager,
\* whatever the hardware does: scan_devices() returns a result record
\* (status "error" with the simulation fallback when it failed),
\* write_control() returns a boolean, stop() completes with the device
\* table cleared
C15_NoExceptionEscapes ==
  /\ ev.op = "scan" =>
       /\ ev.val \in {"completed", "error", "scanning"}
       /\ ev.val = "error" => (ev.sim /\ SimKey \in Range(devices))
  /\ ev.op = "write" => ev.val \in {"true", "false"}
  /\ ev.op = "stop" => (ev.val = "done" /\ devices = <<>>)

\* C16: disable_simulation removes and disconnects every Simulation Driver,
\* clears simulation_mode and then runs a fresh scan: the scan_devices() it
\* calls is never refused, it ends "completed" or "error", also when another
\* scan was in flight at the call
C16_DisableRunsFreshScan ==
  [][((ev'.op = "scan" \/ scan_pc'["disable"] /= "idle") /\ DisableSimulation) =>
       /\ \A k \in Keys : drv[k].kind = "sim" =>
            (drv'[k].status = "disconnected" \/ simulation_mode')
       /\ ~(ev'.op = "scan" /\ ev'.val = "scanning")]_vars

\* C17: the simulated battery SOC stays within [20, 95] percent in every
\* state reached from the initial 75 percent by successive read_data() calls,
\* whatever the time between the calls and whatever the solar and load powers
C17_SocWithinBounds ==
  /\ 20 * SocScale <= simu.battery_soc
  /\ simu.battery_soc <= 95 * SocScale

\* C18: the solar power of a snapshot is 0 when the hour of day of the call
\* is outside [6, 18), 18:00:00 included, and it is never negative
C18_NoSolarOutsideDay ==
  simu.reads > 0 =>
    /\ simu.solar_power_w >= 0
    /\ (simu.last_update % 24 < 6 \/ simu.last_update % 24 >= 18) => simu.solar_power_w = 0

\* the test_connection calls made at the baud rates up to the r-th
RECURSIVE Probed(_)
Probed(r) == IF r = 0 THEN 0 ELSE bus.last[r] + Probed(r - 1)

\* C19: for N baud rates and M addresses a bus scan makes at most N x M
\* liveness probes and at most N x M identification probes, each address
\* being probed at most once per baud rate; at a baud rate it stops at the
\* first device identified, so the result holds at most one device per baud
\* rate and no address after an identified one is probed at that rate
C19_ScanBusBounded ==
  /\ bus.tests <= bus.n * bus.m
  /\ bus.idents <= bus.tests
  /\ bus.tests = Probed(MaxBaud)
  /\ \A r \in 1..MaxBaud : bus.last[r] <= bus.m /\ (r > bus.b => bus.last[r] = 0)
  /\ \A i, j \in DOMAIN bus.found : i /= j => bus.found[i][1] /= bus.found[j][1]
  /\ \A i \in DOMAIN bus.found : bus.last[bus.found[i][1]] = bus.found[i][2]

\* C19 witness: a scan of three addresses has ended with a device identified
\* at the second address of the first baud rate and one at the second rate
C19_Witness ==
  /\ bus.pc = "done"
  /\ bus.m = 3
  /\ Len(bus.found) = 2
  /\ bus.found[1] = <<1, 2>>
  /\ bus.last[1] = 2

\* the operations in flight on the Driver under k: the connect() of a scan,
\* the read_data() or the reconnecting connect() of a collection loop, the
\* connect() of POST /reconnect, the write_control() of POST /control
OnDriver(k) ==
  Cardinality({c \in Callers : scan_pc[c] = "connect" /\ scan_d[c] = k})
    + Cardinality({i \in Loops : coll[i].pc \in {"read", "reconnect"} /\ coll[i].d = k})
    + (IF req.d = k THEN 1 ELSE 0)
    + (IF req.w = k THEN 1 ELSE 0)

\* C20: access to a Driver is serialized: at most one of read, write and
\* connect is in progress on a given Driver at any time
C20_DriverAccessSerialized == \A k \in Keys : OnDriver(k) <= 1

\* C21: write_control called on a Driver of any variant, the Simulation
\* Driver included, returns false whenever the Driver's status is not
\* Connected at the call
C21_WriteRejectedUnlessConnected ==
  [][\A c \in DCallers :
       (Drv.status /= "connected" /\ DWrite(c)) =>
         (ev'.op = "write_control" /\ ev'.val = "false")]_vars

\* C22: health_check ends, when the probe failed (false or raised), with
\* status Error and a last_error stored on the Driver, and when the probe
\* succeeded with status Connected and last_error null
C22_HealthCheckOutcome ==
  ev.op = "health_check" =>
    IF ev.val = "healthy"
    THEN Drv.status = "connected" /\ Drv.last_error = Null
    ELSE Drv.status = "error" /\ Drv.last_error /= Null

\* a connect() is in flight on the Driver under k: a scan's, a collection
\* loop's auto_reconnect, or the one of POST /reconnect
Connecting(k) ==
  \/ \E c \in Callers : scan_pc[c] = "connect" /\ scan_d[c] = k
  \/ \E i \in Loops : coll[i].pc = "reconnect" /\ coll[i].d = k
  \/ req.d = k

\* C23: a connect attempt, a scan's or auto_reconnect's, ends with status
\* Connected when it succeeded and Error when it failed or raised: no Driver
\* of the device table has status Connecting once no attempt on it is in
\* flight
C23_ConnectAttemptSettles ==
  \A k \in Range(devices) : drv[k].status = "connecting" => Connecting(k)

\* C24: a read leaves the Driver's status, connection_attempts and
\* last_error as they were; a snapshot replaces last_data, and without a
\* snapshot last_data stays: for the Simulation Driver's read_data (first in
\* a collection iteration) and for the vendor read a collection loop awaited
C24_ReadFrame ==
  [][\A i \in Loops :
       /\ (/\ coll[i].pc = "sleep"
           /\ devices /= <<>>
           /\ Head(devices) = SimKey
           /\ drv[SimKey].status = "connected"
           /\ CollWake(i)) =>
            drv'[SimKey] = [drv[SimKey] EXCEPT !.last_data = now']
       /\ (/\ coll[i].pc = "read"
           /\ coll[i].d \in Keys
           /\ CollReadReturn(i)) =>
            /\ \E ld \in {drv[coll[i].d].last_data, now'} :
                 drv'[coll[i].d] = [drv[coll[i].d] EXCEPT !.last_data = ld]
            /\ (ev'.op = "collect" /\ ev'.val = "read_error") =>
                 drv'[coll[i].d] = drv[coll[i].d]]_vars

\* C24 witness: a collection iteration has just read the Connected Simulation
\* Driver, which is still Connected and holds the snapshot of this instant
C24_Witness ==
  /\ SimKey \in Range(devices)
  /\ drv[SimKey].status = "connected"
  /\ drv[SimKey].last_data = now
  /\ ev.op = "none"
  /\ \E i \in Loops : coll[i].pc = "sleep"

\* max_retries failed attempts in a row have left the Driver in status Error
Latched(r) == r.status = "error" /\ r.connection_attempts = max_retries

\* a step of a discovery scan
ScanStep ==
  \/ Start
  \/ ManualScan
  \/ DisableSimulation
  \/ ScanLoopWake
  \/ \E c \in Callers : ScanConnectReturn(c)

\* C25: a Driver latched after max_retries failed reconnect attempts stays
\* in status Error with connection_attempts = max_retries through every
\* later collection-loop iteration and auto_reconnect call, for as long as
\* it is in the device table; the entry changes only when a discovery scan
\* puts a newly created Driver in its place
C25_LatchedUntilRescan ==
  [][\A k \in DevKeys :
       (/\ Latched(drv[k])
        /\ k \in Range(devices)
        /\ k \in Range(devices')
        /\ ~Latched(drv'[k])) =>
         /\ drv'[k].connection_attempts = 0
         /\ drv'[k].last_error = Null
         /\ ScanStep]_vars

\* C25 witness: POST /reconnect has just been refused on a latched Driver
C25_Witness ==
  /\ ev.op = "reconnect"
  /\ ev.val = "false"
  /\ \E k \in DevKeys : k \in Range(devices) /\ Latched(drv[k])

\* C26: when the vendor implementation for a discovered device is not
\* available the device still gets a (generic) Driver: a scan that ends
\* "completed" having found n devices leaves at least n discovered devices
\* in the device table
C26_DegradesToGeneric ==
  (ev.op = "scan" /\ ev.val = "completed" /\ ev.n > 0) =>
    Cardinality(Range(devices) \cap DevKeys) >= ev.n

\* C27: the Driver selected is a function of the lower-cased tag: growatt
\* or spf in it selects Growatt, deye or sun selects Deye, sma or sunny
\* selects SMA, none of these selects GenericModbus
C27_SelectionByKeyword ==
  pick.driver /= "none" =>
    LET id == lower(pick.identification)
        growatt == In(<<"g", "r", "o", "w", "a", "t", "t">>, id) \/ In(<<"s", "p", "f">>, id)
        deye == In(<<"d", "e", "y", "e">>, id) \/ In(<<"s", "u", "n">>, id)
        sma == In(<<"s", "m", "a">>, id) \/ In(<<"s", "u", "n", "n", "y">>, id) IN
    /\ growatt => pick.driver = "growatt"
    /\ deye => pick.driver = "deye"
    /\ sma => pick.driver = "sma"
    /\ ~(growatt \/ deye \/ sma) => pick.driver = "generic"

Dispatched(i, k) ==
  LET r == drv[k] IN
  CASE r.status = "connected" /\ r.kind = "sim" ->
         drv'[k] = [r EXCEPT !.last_data = now']
    [] r.status = "connected" /\ r.kind /= "sim" ->
         coll'[i].pc = "read" /\ coll'[i].d = k /\ drv'[k] = r
    [] r.status = "error" /\ r.connection_attempts < max_retries /\ r.kind /= "sim" ->
         /\ coll'[i].pc = "reconnect" /\ coll'[i].d = k
         /\ drv'[k] = [r EXCEPT !.status = "connecting", !.connection_attempts = @ + 1]
    [] r.status = "error" /\ r.connection_attempts >= max_retries -> drv'[k] = r
    [] r.status \in {"disconnected", "connecting", "simulation"} ->
         drv'[k] = r /\ ~(coll'[i].pc \in {"read", "reconnect"} /\ coll'[i].d = k)
    [] OTHER -> TRUE

\* C29: a collection iteration reads each Connected Driver once, calls
\* auto_reconnect once on each Driver in Error, and leaves the Drivers in
\* any other status alone; it does not end with entries of the table
\* unvisited while a Connected Driver is still there unread
C29_CollectionDispatch ==
  [][\A i \in Loops :
       /\ (coll[i].pc = "sleep" /\ devices /= <<>> /\ CollWake(i)) =>
            Dispatched(i, Head(devices))
       /\ (/\ ev'.op = "collect"
           /\ ev'.val = "error"
           /\ ev'.n > 0
           /\ coll[i].pc \in {"read", "reconnect"}
           /\ coll'[i].pc \notin {"read", "reconnect"}) =>
            ~(\E k \in Range(devices) :
                drv[k].status = "connected" /\ drv'[k].last_data /= now')]_vars

\* C30: an address that answered test_connection but was not identified,
\* or whose probe raised, is skipped: found_devices stays as it is and the
\* scan goes on with the next address of the same baud rate (with the next
\* baud rate only after the last address)
C30_UnidentifiedSkipped ==
  [][(/\ bus.pc \in {"test", "identify"}
      /\ bus' /= bus
      /\ bus'.found = bus.found
      /\ ~(bus.pc = "test" /\ bus'.pc = "identify")) =>
       IF bus.a < bus.m
       THEN bus'.pc = "test" /\ bus'.b = bus.b /\ bus'.a = bus.a + 1
       ELSE bus'.pc = "done" \/ (bus'.pc = "connect" /\ bus'.b = bus.b + 1)]_vars

\* C30 witness: at one baud rate the first two addresses answered without
\* being identified and the third was identified
C30_Witness ==
  /\ bus.pc = "done"
  /\ bus.n = 1
  /\ bus.found = <<<<1, 3>>>>
  /\ bus.idents = 3

\* C31: the daylight window recurs every day: a read at a time of day
\* within 06:00-18:00, on the day the Driver was constructed or on a later
\* one, yields what the bell curve gives for that time of day, and a read
\* at a time of day outside the window yields 0
C31_WindowRecursDaily ==
  simu.reads > 0 =>
    LET hour == simu.last_update % 24 IN
    /\ (day_start <= hour /\ hour < day_end) =>
         \E d \in Draws : simu.solar_power_w = calculate_solar_power(hour, d)
    /\ (hour < day_start \/ hour > day_end) => simu.solar_power_w = 0

\* the connect() calls in flight on the Driver under k
ConnectsOn(k) ==
  Cardinality({c \in Callers : scan_pc[c] = "connect" /\ scan_d[c] = k})
    + Cardinality({i \in Loops : coll[i].pc = "reconnect" /\ coll[i].d = k})
    + (IF req.d = k THEN 1 ELSE 0)

\* C32: auto_reconnect calls running concurrently on one Driver (the
\* collection loop's and POST /reconnect's) never have two connect() calls
\* in flight on it: a call that finds the Driver Connected or Connecting
\* returns true, starts no connect() and leaves the Driver's status,
\* connection_attempts and last_error as they were
C32_ReconnectNoop ==
  [][/\ \A k \in Keys : ConnectsOn(k)' <= 1
     /\ \A k \in Range(devices) :
          (drv[k].status \in {"connected", "connecting"} /\ Reconnect(k)) =>
            /\ ev'.op = "reconnect" /\ ev'.val = "true"
            /\ drv' = drv
            /\ req' = req /\ coll' = coll /\ scan_pc' = scan_pc]_vars

\* POST /reconnect answered true at once while the collection loop's
\* auto_reconnect is inside connect() on the same Driver
C32_Witness ==
  /\ ev.op = "reconnect" /\ ev.val = "true"
  /\ req.d = NoRef
  /\ \E i \in Loops :
       /\ coll[i].pc = "reconnect"
       /\ coll[i].d \in Range(devices)
       /\ drv[coll[i].d].status = "connecting"
       /\ drv[coll[i].d].connection_attempts = 1

\* C33: the scanning flag is always released: scanning holds only while a
\* scan body is in flight (awaiting a connect()), and every scan that set
\* it sets it back to false, so that a later scan_devices() is not refused
\* for ever
C33_ScanningReleased ==
  /\ [](scanning => InFlight /= {})
  /\ scanning ~> ~scanning

\* a scan whose discovery raised has returned "error" and released the flag
C33_Witness ==
  /\ ev.op = "scan" /\ ev.val = "error"
  /\ ~scanning
  /\ simulation_mode

\* C34: get_latest_data() never regresses while the manager is running:
\* over scans and collection-loop iterations (no stop(), no simulation
\* toggle), once it has a snapshot to return it has one after every later
\* step, with a timestamp that is not smaller
C34_LatestNeverRegresses ==
  [][(running /\ get_latest_data(Cur) /= NoData) =>
       /\ get_latest_data(Cur)' /= NoData
       /\ get_latest_data(Cur)' >= get_latest_data(Cur)]_vars

\* no operation is in flight: no scan awaits a connect(), no collection
\* loop is inside a Driver call, no request awaits a Driver
Quiescent ==
  /\ InFlight = {}
  /\ \A i \in Loops : coll[i].pc \notin {"read", "reconnect"}
  /\ req = NoReq

\* C35: in every quiescent state simulation_mode holds if and only if the
\* device table contains a Simulation Driver
C35_SimulationModeAgrees ==
  Quiescent =>
    (simulation_mode <=> \E k \in Range(devices) : drv[k].kind = "sim")

\* a step in which a scan_devices() starts
ScanBegins == Start \/ ManualScan \/ ScanLoopWake \/ DisableSimulation

\* C36: no Driver outside the device table remains Connected: when a scan
\* or its simulation fallback stores a Driver under a key that is already
\* in the table, the Driver stored there before has been disconnected, so
\* none of the objects the step took out of the table is Connected
C36_OverwrittenIsDisconnected ==
  [][~("connected" \in left' /\ ScanBegins)]_vars

\* C37: a bus scan has at most one Transport Client open at a time and
\* opens one per baud rate: the only client that can be open is the one of
\* the baud rate being probed, and none is open when the next baud rate's
\* client is being connected or when the scan has returned
C37_OneClientOpen ==
  /\ Cardinality(bus.open) <= 1
  /\ bus.open \subseteq {bus.b}
  /\ bus.pc \in {"idle", "connect", "done"} => bus.open = {}
  /\ bus.pc \in {"test", "identify"} => bus.open = {bus.b}
  /\ \A r \in 1..MaxBaud : bus.opens[r] <= 1

\* a scan of two baud rates has returned with every client closed: at the
\* first rate it left the loop by the early stop after a probe that failed
\* or raised, at the second it went through every address
C37_Witness ==
  /\ bus.pc = "done"
  /\ bus.open = {}
  /\ bus.opens = [r \in 1..MaxBaud |-> 1]
  /\ bus.found = <<<<1, 2>>>>
  /\ bus.last[2] = bus.m
  /\ bus.m = 3

\* the update-loop tasks that are alive
Alive == {t \in Upd : ws.task[t] \notin {"none", "done"}}

\* C38: over any calls of start_update_loop() and stop_update_loop() at
\* most one update-loop task is alive; a start_update_loop() called while
\* the task is alive creates no task; when a stop_update_loop() returns,
\* the task it found has finished (a cancelled task ends at its next step)
C38_OneUpdateLoop ==
  [][/\ Cardinality(Alive)' <= 1
     /\ (ws.update_task /= 0 /\ ws.task[ws.update_task] /= "done" /\ StartUpdateLoop) =>
          ws' = ws
     /\ \A t \in Upd : (ws.cancel[t] /\ UpdateLoopStep(t)) => ws'.task[t] = "done"
     /\ (ev'.op = "stop_update_loop" /\ ev'.val = "returned") =>
          /\ ev'.n /= 0 => ws'.task[ev'.n] = "done"
          /\ ev'.n = 0 => (ws.update_task = 0 \/ ws.task[ws.update_task] = "done")]_vars

\* a stop_update_loop() has returned after awaiting the second task created,
\* which it had cancelled; no task is alive
C38_Witness ==
  /\ ev.op = "stop_update_loop" /\ ev.val = "returned"
  /\ ev.n = 2
  /\ ws.update_task = 2
  /\ ws.task[1] = "done" /\ ws.task[2] = "done"
  /\ \A c \in Stoppers : ws.stop[c] = 0
  /\ Alive = {}

====
